---- MODULE Spec2Model ----
(***************************************************************************)
(* Water-quality dashboard (Streamlit pages 2_Manual_Input.py,             *)
(* Home_page.py, 3_OrgUseData_Dashboard.py) over one shared CSV file.      *)
(*                                                                         *)
(* Conventions of the model                                                *)
(*  - measurements are floats in the code; here they are integers counting *)
(*    tenths (7.0 is 70, 6.5 is 65), the step of the number_input widgets. *)
(*  - a zip code is text: a sequence of one-character strings, so that the *)
(*    CSV parsers (text kept, NA detection, integer inference) can be      *)
(*    modelled by what they do to the characters.                          *)
(*  - a number read from the file may also carry a second, far smaller     *)
(*    part e counting 1e-10 (a file can hold -1e-10 in a measured        *)
(*    column); v tenths and e together order lexicographically.  The form *)
(*    of 2_Manual_Input.py only produces e = 0.                            *)
(*  - a mean is kept exact as (sum, esum, n), the sums of the parts of the *)
(*    n values it averages; n = 0 is pandas' NaN.                          *)
(***************************************************************************)
EXTENDS Integers, Sequences, FiniteSets, TLC

VARIABLES
    args,                 \* validate_data: the four arguments of the call
    validation_warnings,  \* validate_data: the returned list (or "pending")
    distance,             \* 2_Manual_Input.py:62  geodesic(click, coord).miles
                          \* of the click to each entry of the table
    response,             \* 2_Manual_Input.py:70  what requests.get produced
    zipcode,              \* 2_Manual_Input.py:89  result of the resolver call
    file,                 \* data rows of san_jose_water_quality_user_data.csv
    recent_data,          \* per session: frame loaded at 2_Manual_Input.py:134
    pc,                   \* per session: position inside a Delete run
    last,                 \* the last page run: what was asked, what it showed
    page                  \* what the last viewed page computed from the file

vars == <<args, validation_warnings, distance, response, zipcode,
          file, recent_data, pc, last, page>>

None == "None"

\* A Python value that is either None or text.
PyNone == [none |-> TRUE, text |-> <<>>]
Text(t) == [none |-> FALSE, text |-> t]

--------------------------------------------------------------------------
(* Reading Validator: 2_Manual_Input.py:46-56                              *)

W_pH == "pH level is outside the typical safe range (6.5 - 8.5)."
W_Turbidity == "Turbidity is outside the typical safe range (0 - 5 NTU)."
W_DO == "Dissolved Oxygen is outside the typical safe range (5 - 14 mg/L)."
W_Nitrate == "Nitrate level is outside the safe range (0 - 10 mg/L)."

\* The same function with the pH test made exclusive at its upper bound.
validate_data_strict(pH, turbidity, dissolved_oxygen, nitrate) ==
    (IF ~(65 <= pH /\ pH < 85) THEN <<W_pH>> ELSE <<>>)
    \o (IF ~(0 <= turbidity /\ turbidity <= 50) THEN <<W_Turbidity>> ELSE <<>>)
    \o (IF ~(50 <= dissolved_oxygen /\ dissolved_oxygen <= 140) THEN <<W_DO>> ELSE <<>>)
    \o (IF ~(0 <= nitrate /\ nitrate <= 100) THEN <<W_Nitrate>> ELSE <<>>)

validate_data(pH, turbidity, dissolved_oxygen, nitrate) ==
    LET w0 == <<>>
        w1 == IF ~(65 <= pH /\ pH <= 85) THEN Append(w0, W_pH) ELSE w0
        w2 == IF ~(0 <= turbidity /\ turbidity <= 50)
              THEN Append(w1, W_Turbidity) ELSE w1
        w3 == IF ~(50 <= dissolved_oxygen /\ dissolved_oxygen <= 140)
              THEN Append(w2, W_DO) ELSE w2
        w4 == IF ~(0 <= nitrate /\ nitrate <= 100)
              THEN Append(w3, W_Nitrate) ELSE w3
    IN  w4

--------------------------------------------------------------------------
(* Coordinate Resolver: 2_Manual_Input.py:27-35, 58-75                     *)

\* The fallback table in its (insertion) iteration order.  The coordinates
\* are in units of 1e-4 degree.
known_zipcode_coords ==
    << [zipcode |-> <<"9", "5", "1", "1", "0">>, coord |-> <<373422, -1218996>>],
       [zipcode |-> <<"9", "5", "1", "1", "2">>, coord |-> <<373535, -1218865>>],
       [zipcode |-> <<"9", "5", "1", "1", "3">>, coord |-> <<373333, -1218907>>],
       [zipcode |-> <<"9", "5", "1", "1", "6">>, coord |-> <<373496, -1218569>>],
       [zipcode |-> <<"9", "5", "1", "1", "7">>, coord |-> <<373126, -1219502>>],
       [zipcode |-> <<"9", "5", "1", "1", "8">>, coord |-> <<372505, -1218891>>],
       [zipcode |-> <<"9", "5", "1", "2", "0">>, coord |-> <<372060, -1218133>>] >>

TableIdx == 1..Len(known_zipcode_coords)

\* geodesic() is geopy's; its results for one click are an input of the
\* model: any vector of distances 1..MaxDist over the table.
MaxDist == 3
Distances == [TableIdx -> 1..MaxDist]

\* The loop test with <= : the last of several nearest entries would win.
closer_or_equal(d, acc) == acc.inf \/ d <= acc.min

\* `distance < min_distance`, min_distance starting at float("inf").
closer(d, acc) == acc.inf \/ d < acc.min

RECURSIVE nearest_loop(_, _, _)
nearest_loop(dist, i, acc) ==
    IF i > Len(known_zipcode_coords) THEN acc
    ELSE nearest_loop(dist, i + 1,
            IF closer(dist[i], acc)
            THEN [inf |-> FALSE, min |-> dist[i],
                  nearest_zipcode |-> Text(known_zipcode_coords[i].zipcode)]
            ELSE acc)

get_nearest_zipcode(dist) ==
    nearest_loop(dist, 1, [inf |-> TRUE, min |-> 0, nearest_zipcode |-> PyNone]).nearest_zipcode

\* What requests.get(url) and the body it delivers can be.
Responses ==
    { "ConnectionError",   \* requests.get raises (network error, timeout)
      "status_500",        \* a response whose status_code is not 200
      "body_not_json",     \* 200, response.json() raises JSONDecodeError
      "no_address",        \* 200, JSON without "address"
      "no_postcode",       \* 200, "address" without "postcode"
      "postcode_null",     \* 200, "postcode": null
      "postcode" }         \* 200, "postcode": "95126"

Raises(resp) == resp \in {"ConnectionError", "body_not_json"}

\* The value returned, when the call returns (no except clause anywhere).
get_zipcode_from_coordinates(resp, dist) ==
    CASE resp = "postcode"      -> Text(<<"9", "5", "1", "2", "6">>)
      [] resp = "postcode_null" -> PyNone
      [] OTHER                  -> get_nearest_zipcode(dist)

--------------------------------------------------------------------------
(* The CSV file and pandas' readers and writer                             *)

\* Characters zip-code text is made of here, in code-point order.
Alphabet == <<"0", "1", "2", "3", "4", "5", "6", "7", "8", "9", "A", "N">>
Code(c) == CHOOSE i \in 1..Len(Alphabet) : Alphabet[i] = c
IsDigit(c) == Code(c) <= 10

\* The four measured columns, in the order of expected_columns / safe_ranges
\* ("Dissolved Oxygen" is spelled without its space).
Params == <<"pH", "Turbidity", "DissolvedOxygen", "Nitrate">>
ParamSet == {Params[i] : i \in 1..Len(Params)}

\* A cell of a measured column as text: a number, other text, or nothing.
NumCellE(v, e) == [k |-> "num", v |-> v, e |-> e]
NumCell(v) == NumCellE(v, 0)
TxtCell == [k |-> "txt", v |-> 0, e |-> 0]
EmptyCell == [k |-> "empty", v |-> 0, e |-> 0]

\* Values of a loaded frame.
Float(v, e) == [k |-> "float", v |-> v, e |-> e]
NaN == [k |-> "nan", v |-> 0, e |-> 0]
StrZip(t) == [k |-> "str", s |-> t, n |-> 0]
IntZip(n) == [k |-> "int", s |-> <<>>, n |-> n]
FloatZip(n) == [k |-> "float", s |-> <<>>, n |-> n]
NaNZip == [k |-> "nan", s |-> <<>>, n |-> 0]

\* pandas' default na_values that text of this alphabet can spell: the empty
\* field and "NA".  They read as NaN under every dtype, str included.
NAValues == { <<>>, <<"N", "A">> }

RECURSIVE ToInt(_)
ToInt(t) == IF t = <<>> THEN 0
            ELSE 10 * ToInt(SubSeq(t, 1, Len(t) - 1)) + (Code(t[Len(t)]) - 1)

IsIntText(t) == t # <<>> /\ \A i \in 1..Len(t) : IsDigit(t[i])

\* read_csv's Zipcode column under dtype={"Zipcode": str}.
ZipColumnStr(cells) ==
    [i \in 1..Len(cells) |->
        IF cells[i] \in NAValues THEN NaNZip ELSE StrZip(cells[i])]

\* read_csv's Zipcode column with the dtype inferred: int64 when every field
\* is an integer, float64 when the rest are NA, else object (text kept).
ZipColumnInferred(cells) ==
    LET n == Len(cells)
        allInt == \A i \in 1..n : IsIntText(cells[i])
        allIntOrNA == \A i \in 1..n : IsIntText(cells[i]) \/ cells[i] \in NAValues
    IN  [i \in 1..n |->
            IF allInt THEN IntZip(ToInt(cells[i]))
            ELSE IF allIntOrNA
                 THEN (IF cells[i] \in NAValues THEN NaNZip
                       ELSE FloatZip(ToInt(cells[i])))
                 ELSE (IF cells[i] \in NAValues THEN NaNZip
                       ELSE StrZip(cells[i]))]

\* A measured column: float64 when every field is a number or empty, else
\* object, where a number stays the text it was.
NumColumn(cells) ==
    LET n == Len(cells)
        numeric == \A i \in 1..n : cells[i].k \in {"num", "empty"}
    IN  [i \in 1..n |->
            IF cells[i].k = "empty" THEN NaN
            ELSE IF numeric THEN Float(cells[i].v, cells[i].e)
            ELSE [k |-> IF cells[i].k = "num" THEN "str_num" ELSE "str_txt",
                  v |-> cells[i].v, e |-> cells[i].e]]

Column(f, name) == [i \in 1..Len(f) |-> f[i][name]]

\* pd.read_csv(file_path, dtype={"Zipcode": str}) / pd.read_csv(file_path).
\* Row i of the frame has index label i - 1.
read_csv(f, zipAsStr) ==
    LET zips == IF zipAsStr THEN ZipColumnStr(Column(f, "Zipcode"))
                ELSE ZipColumnInferred(Column(f, "Zipcode"))
        num == [p \in ParamSet |-> NumColumn(Column(f, p))]
    IN  [i \in 1..Len(f) |->
            [Zipcode |-> zips[i], Date |-> f[i].Date,
             pH |-> num["pH"][i], Turbidity |-> num["Turbidity"][i],
             DissolvedOxygen |-> num["DissolvedOxygen"][i],
             Nitrate |-> num["Nitrate"][i]]]

\* pd.to_numeric(value, errors="coerce")
to_numeric(x) == IF x.k = "str_num" THEN Float(x.v, x.e)
                 ELSE IF x.k = "str_txt" THEN NaN ELSE x

\* DataFrame.to_csv of one value: NaN is written as the empty field.
ZipText(z) == IF z.k = "str" THEN z.s ELSE <<>>
NumText(x) == CASE x.k = "float"   -> NumCellE(x.v, x.e)
                [] x.k = "str_num" -> NumCellE(x.v, x.e)
                [] x.k = "str_txt" -> TxtCell
                [] OTHER           -> EmptyCell

to_csv(frame) ==
    [i \in 1..Len(frame) |->
        [Zipcode |-> ZipText(frame[i].Zipcode), Date |-> frame[i].Date,
         pH |-> NumText(frame[i].pH), Turbidity |-> NumText(frame[i].Turbidity),
         DissolvedOxygen |-> NumText(frame[i].DissolvedOxygen),
         Nitrate |-> NumText(frame[i].Nitrate)]]

\* new_data.to_csv(file_path, mode='a', header=False, index=False): the text
\* typed in the zip box goes to the file as it is.
CsvRow(z, date, ph_level, turbidity, dissolved_oxygen, nitrate) ==
    [Zipcode |-> z, Date |-> date,
     pH |-> NumCell(ph_level), Turbidity |-> NumCell(turbidity),
     DissolvedOxygen |-> NumCell(dissolved_oxygen), Nitrate |-> NumCell(nitrate)]

--------------------------------------------------------------------------
(* Aggregator: groupby("Zipcode").mean(numeric_only=True) and the verdicts *)

\* (low, high) per parameter, in tenths; the same table on all three pages.
safe_ranges == [pH |-> <<65, 85>>, Turbidity |-> <<0, 50>>,
                DissolvedOxygen |-> <<50, 140>>, Nitrate |-> <<0, 100>>]

RECURSIVE LexLess(_, _)
LexLess(a, b) ==
    IF b = <<>> THEN FALSE
    ELSE IF a = <<>> THEN TRUE
    ELSE IF Code(a[1]) # Code(b[1]) THEN Code(a[1]) < Code(b[1])
    ELSE LexLess(Tail(a), Tail(b))

KeyLess(a, b) == IF a.k = "str" THEN LexLess(a.s, b.s) ELSE a.n < b.n

\* The group keys in groupby's order: ascending, NaN keys dropped.
RECURSIVE SortKeys(_)
SortKeys(S) ==
    IF S = {} THEN <<>>
    ELSE LET m == CHOOSE x \in S : \A y \in S \ {x} : KeyLess(x, y)
         IN  <<m>> \o SortKeys(S \ {m})

GroupKeys(frame) ==
    SortKeys({frame[i].Zipcode : i \in 1..Len(frame)} \ {NaNZip})

RECURSIVE SumOver(_, _, _, _)
SumOver(frame, I, p, part) ==
    IF I = {} THEN 0
    ELSE LET i == CHOOSE x \in I : TRUE
         IN  frame[i][p][part] + SumOver(frame, I \ {i}, p, part)

\* numeric_only=True keeps a column only if its dtype is numeric.
IsNumericColumn(frame, p) ==
    \A i \in 1..Len(frame) : frame[i][p].k \in {"float", "nan"}

\* The mean of column p over the rows of one key, NaN skipped; present is
\* FALSE when the column is not in the result at all.
GroupMean(frame, key, p) ==
    LET I == {i \in 1..Len(frame) : frame[i].Zipcode = key /\ frame[i][p].k = "float"}
    IN  [present |-> IsNumericColumn(frame, p),
         sum |-> IF IsNumericColumn(frame, p) THEN SumOver(frame, I, p, "v") ELSE 0,
         esum |-> IF IsNumericColumn(frame, p) THEN SumOver(frame, I, p, "e") ELSE 0,
         n |-> IF IsNumericColumn(frame, p) THEN Cardinality(I) ELSE 0]

\* frame.groupby("Zipcode").mean(numeric_only=True).reset_index()
groupby_mean(frame) ==
    LET keys == GroupKeys(frame)
    IN  [j \in 1..Len(keys) |->
            [Zipcode |-> keys[j],
             mean |-> [p \in ParamSet |-> GroupMean(frame, keys[j], p)]]]

\* low <= value, value <= high for a mean; every comparison with NaN is False.
GeLow(m, p) ==
    /\ m.n > 0
    /\ \/ safe_ranges[p][1] * m.n < m.sum
       \/ safe_ranges[p][1] * m.n = m.sum /\ m.esum >= 0
LeHigh(m, p) ==
    /\ m.n > 0
    /\ \/ m.sum < safe_ranges[p][2] * m.n
       \/ m.sum = safe_ranges[p][2] * m.n /\ m.esum <= 0

\* Home_page.py:85  in_safe_range
in_safe_range(m, p) == GeLow(m, p) /\ LeHigh(m, p)

\* Home_page.py:83-102  the status shown for one parameter
status(m, p) == IF m.n = 0 THEN "No data available"
                ELSE IF in_safe_range(m, p) THEN "Safe" ELSE "Alert"

\* Home_page.py:106-109  the condition of "General Water Safety"
general_water_safety(row) ==
    /\ in_safe_range(row.mean["pH"], "pH")
    /\ LeHigh(row.mean["Turbidity"], "Turbidity")
    /\ in_safe_range(row.mean["DissolvedOxygen"], "DissolvedOxygen")
    /\ LeHigh(row.mean["Nitrate"], "Nitrate")

--------------------------------------------------------------------------
(* One run of each page over the file: what it loads, computes and shows   *)

NotShown == "not shown"
NoStatus == [p \in ParamSet |-> NotShown]
ParamIdx(p) == CHOOSE i \in 1..Len(Params) : Params[i] = p

\* Home_page.py:94-96  st.progress(min(value / max(safe_max, value), 1.0)).
\* Streamlit raises unless the argument is in [0, 1] or within 1e-9 of it:
\* a mean of -1e-10 passes, a mean of -0.1 or less raises.
progress_raises(m) == m.n > 0 /\ m.sum < 0

\* One row of the loop at Home_page.py:69-112.  The status of a parameter is
\* written before its progress bar; an exception ends the run there.
HomeRow(row) ==
    LET bad == {i \in 1..Len(Params) : progress_raises(row.mean[Params[i]])}
        stop == IF bad = {} THEN Len(Params) + 1
                ELSE CHOOSE i \in bad : \A j \in bad : i <= j
    IN  [status |-> [p \in ParamSet |->
                        IF ParamIdx(p) <= stop THEN status(row.mean[p], p)
                        ELSE NotShown],
         overall |-> IF bad # {} THEN NotShown
                     ELSE IF general_water_safety(row) THEN "safe" ELSE "unsafe",
         raised |-> bad # {}]

\* 2_Manual_Input.py:163-171  row[param] is a KeyError when the column is not
\* in latest_data.
ManualRow(row) ==
    LET bad == {i \in 1..Len(Params) : ~row.mean[Params[i]].present}
        stop == IF bad = {} THEN Len(Params) + 1
                ELSE CHOOSE i \in bad : \A j \in bad : i <= j
    IN  [status |-> [p \in ParamSet |->
                        IF ParamIdx(p) < stop
                        THEN (IF in_safe_range(row.mean[p], p)
                              THEN "within_range" ELSE "out_of_range")
                        ELSE NotShown],
         overall |-> NotShown,
         raised |-> bad # {}]

\* 3_OrgUseData_Dashboard.py:107-129  a marker for a zip code of the table,
\* green when the mean turbidity is <= its upper bound.
IsKnownZip(z) ==
    /\ z.k = "str"
    /\ \E i \in 1..Len(known_zipcode_coords) : known_zipcode_coords[i].zipcode = z.s
DashboardRow(row) ==
    [status |-> NoStatus,
     overall |-> IF ~IsKnownZip(row.Zipcode) THEN NotShown
                 ELSE IF LeHigh(row.mean["Turbidity"], "Turbidity")
                      THEN "green" ELSE "red",
     raised |-> FALSE]

\* What the loop over the summary rows shows: rows after the one that raised
\* show nothing.
Shown(summary, name) ==
    LET one(j) == CASE name = "Home"   -> HomeRow(summary[j])
                    [] name = "Manual" -> ManualRow(summary[j])
                    [] OTHER           -> DashboardRow(summary[j])
    IN  [j \in 1..Len(summary) |->
            IF \E i \in 1..(j - 1) : one(i).raised
            THEN [status |-> NoStatus, overall |-> NotShown, raised |-> FALSE]
            ELSE one(j)]

Coerce(frame) ==
    [i \in 1..Len(frame) |->
        [frame[i] EXCEPT !.pH = to_numeric(@), !.Turbidity = to_numeric(@),
                         !.DissolvedOxygen = to_numeric(@),
                         !.Nitrate = to_numeric(@)]]

\* data.dropna(subset=[the four columns], how="all")
dropna_all(frame) ==
    SelectSeq(frame, LAMBDA r : \E p \in ParamSet : r[p].k # "nan")

PageOf(name, frame) ==
    LET summary == groupby_mean(frame)
        shown == Shown(summary, name)
    IN  [name |-> name,
         zips |-> [i \in 1..Len(frame) |-> frame[i].Zipcode],
         summary |-> summary,
         shown |-> shown,
         error |-> IF \E j \in 1..Len(shown) : shown[j].raised
                   THEN (IF name = "Home" THEN "StreamlitAPIException"
                         ELSE "KeyError")
                   ELSE None]

\* Home_page.py:56-112
HomePage(f) == PageOf("Home", Coerce(read_csv(f, FALSE)))

\* 3_OrgUseData_Dashboard.py:22-132
DashboardPage(f) == PageOf("Dashboard", dropna_all(Coerce(read_csv(f, TRUE))))

\* 2_Manual_Input.py:161-173 over the frame of line 134 (after a drop, if any)
ManualPage(frame) == PageOf("Manual", frame)

--------------------------------------------------------------------------
(* 2_Manual_Input.py: the Submit Data and Delete Entry handlers            *)

\* recent_data.tail(5): the index labels a Delete Entry button is drawn for.
TailCount == 5

\* Labels counted from 1: the row after the last one would get a button.
tail_labels_from_one(frame) ==
    {i \in 1..Len(frame) : i > Len(frame) - TailCount}

tail_labels(frame) ==
    {i \in 0..(Len(frame) - 1) : i >= Len(frame) - TailCount}

\* A drop that removes the first row whatever the label.
drop_first(frame, idx) == Tail(frame)

\* A drop that also loses the row after the label.
drop_two(frame, idx) ==
    [i \in 1..(IF idx + 2 <= Len(frame) THEN Len(frame) - 2 ELSE Len(frame) - 1) |->
        IF i <= idx THEN frame[i] ELSE frame[i + 2]]

\* recent_data.drop(idx), idx a label of the frame (row idx + 1).
drop(frame, idx) ==
    [i \in 1..(Len(frame) - 1) |-> IF i <= idx THEN frame[i] ELSE frame[i + 1]]

MsgSuccess == "Thank you! Your data has been submitted successfully."
MsgUnusual == "Some values seem unusual:"
MsgZipError == "Please enter or confirm a valid zipcode."
MsgDeleted == "Entry deleted successfully."

\* `if zipcode:` -- a non-empty string.
zipcode_given(z) == z # <<>>

\* The handler storing the row also when there are warnings.
SubmitData_with_warnings(f, z, date, ph_level, turbidity, dissolved_oxygen, nitrate) ==
    IF zipcode_given(z)
    THEN LET w == validate_data(ph_level, turbidity, dissolved_oxygen, nitrate)
         IN  [msg |-> IF w # <<>> THEN MsgUnusual ELSE MsgSuccess, warnings |-> w,
              file |-> Append(f, CsvRow(z, date, ph_level, turbidity,
                                        dissolved_oxygen, nitrate))]
    ELSE [msg |-> MsgZipError, warnings |-> <<>>, file |-> f]

\* 2_Manual_Input.py:106-126: the message shown and the file afterwards.
SubmitData(f, z, date, ph_level, turbidity, dissolved_oxygen, nitrate) ==
    IF zipcode_given(z)
    THEN LET w == validate_data(ph_level, turbidity, dissolved_oxygen, nitrate)
         IN  IF w # <<>>
             THEN [msg |-> MsgUnusual, warnings |-> w, file |-> f]
             ELSE [msg |-> MsgSuccess, warnings |-> w,
                   file |-> Append(f, CsvRow(z, date, ph_level, turbidity,
                                             dissolved_oxygen, nitrate))]
    ELSE [msg |-> MsgZipError, warnings |-> <<>>, file |-> f]

\* 2_Manual_Input.py:135-141: whether the button "Delete Entry idx" exists in
\* a run that loaded `frame`; a click on a button that is not drawn does
\* nothing.
HasDeleteButton(frame, idx) == frame # <<>> /\ idx \in tail_labels(frame)

\* 2_Manual_Input.py:142-143: the file written from the loaded frame.
DeleteRewrite(frame, idx) == to_csv(drop(frame, idx))

\* 2_Manual_Input.py:133-145: the message shown, the frame left in
\* recent_data and the file afterwards.
DeleteEntry(f, idx) ==
    LET frame == read_csv(f, TRUE)
    IN  IF HasDeleteButton(frame, idx)
        THEN [msg |-> MsgDeleted, frame |-> drop(frame, idx),
              file |-> DeleteRewrite(frame, idx)]
        ELSE [msg |-> None, frame |-> frame, file |-> f]

--------------------------------------------------------------------------
(* Inputs and bounds                                                       *)

MaxRows == 3        \* rows the shared file holds at most in Spec
MaxConcRows == 3    \* rows the shared file holds at most in SpecConc
MaxAggRows == 2     \* rows of a file handed to the pages in SpecAgg

Z95110 == <<"9", "5", "1", "1", "0">>
Z01234 == <<"0", "1", "2", "3", "4">>
Z1234 == <<"1", "2", "3", "4">>
ZNA == <<"N", "A">>
Z95112 == <<"9", "5", "1", "1", "2">>

\* What can be in the zip box (max_chars=5) when Submit Data is pressed.
ZipInputs == { <<>>, Z95110, Z01234, ZNA }
Dates == { "2024-11-01" }
\* Values the number_input widgets (lines 100-103) let through: pH 6.5-8.5,
\* turbidity 0-10, dissolved oxygen 5-14, nitrate 0-10.
PhInputs == { 70 }
TurbidityInputs == { 10, 60 }
OxygenInputs == { 80 }
NitrateInputs == { 10 }

\* Arguments for validate_data on its own: around and on every bound.
PhArgs == { 64, 65, 70, 85, 86 }
TurbidityArgs == { -1, 0, 10, 50, 51 }
OxygenArgs == { 49, 50, 80, 140, 141 }
NitrateArgs == { -1, 0, 10, 100, 101 }

Sessions == { "A", "B" }
\* The zip boxes of the two sessions in SpecConc.
ConcZipInputs == { Z95110, Z95112 }

\* Rows a file not written by the input page alone may hold.
AggRows ==
    { [Zipcode |-> z, Date |-> "2024-11-01", pH |-> a, Turbidity |-> b,
       DissolvedOxygen |-> NumCell(80), Nitrate |-> NumCell(10)] :
        z \in { Z95110, Z01234, Z1234 },
        a \in { NumCell(70), NumCell(80), NumCell(60), TxtCell, EmptyCell },
        b \in { NumCell(10), NumCell(60), NumCell(-10), NumCellE(0, -1) } }

SeqsUpTo(S, n) == UNION { [1..k -> S] : k \in 0..n }

--------------------------------------------------------------------------
(* State                                                                   *)

\* `last` describes the last run: the button pressed (op), the session, the
\* message shown, the inputs, the file before the run, and in prev the run
\* before it when that one was a Submit that stored a row.
NoPrev == [stored |-> FALSE, z |-> <<>>, vals |-> <<>>, before |-> <<>>]
NoRun == [op |-> "none", s |-> "A", msg |-> None, z |-> <<>>, vals |-> <<>>,
          idx |-> 0, fresh |-> TRUE, before |-> <<>>, prev |-> NoPrev]
NoPage == [name |-> "none", zips |-> <<>>, summary |-> <<>>, shown |-> <<>>,
           error |-> None]
Brief(r) == IF r.op = "submit" /\ r.before # file
            THEN [stored |-> TRUE, z |-> r.z, vals |-> r.vals, before |-> r.before]
            ELSE NoPrev

ValidatorIdle ==
    /\ args = <<70, 10, 80, 10>>
    /\ validation_warnings = [done |-> FALSE, list |-> <<>>]
ResolverIdle ==
    /\ distance = [i \in TableIdx |-> 1]
    /\ response = "status_500"
    /\ zipcode = [done |-> FALSE, raised |-> None, value |-> Text(<<>>)]
StoreIdle ==
    /\ file = <<>>
    /\ recent_data = [s \in Sessions |-> <<>>]
    /\ pc = [s \in Sessions |-> [at |-> "idle", idx |-> 0]]
    /\ last = NoRun
    /\ page = NoPage

validatorVars == <<args, validation_warnings>>
resolverVars == <<distance, response, zipcode>>
storeVars == <<file, recent_data, pc, last, page>>

--------------------------------------------------------------------------
(* validate_data called on its own                                         *)

InitValidate ==
    /\ args \in PhArgs \X TurbidityArgs \X OxygenArgs \X NitrateArgs
    /\ validation_warnings = [done |-> FALSE, list |-> <<>>]
    /\ ResolverIdle /\ StoreIdle

Validate ==
    /\ ~validation_warnings.done
    /\ validation_warnings' =
          [done |-> TRUE, list |-> validate_data(args[1], args[2], args[3], args[4])]
    /\ UNCHANGED <<args, resolverVars, storeVars>>

SpecValidate == InitValidate /\ [][Validate]_vars

--------------------------------------------------------------------------
(* A map click: 2_Manual_Input.py:87-93                                    *)

InitResolve ==
    /\ distance \in Distances
    /\ response \in Responses
    /\ zipcode = [done |-> FALSE, raised |-> None, value |-> Text(<<>>)]
    /\ ValidatorIdle /\ StoreIdle

\* The click's run: an exception of requests.get or response.json() is
\* caught nowhere and ends the run with zipcode unassigned.
Click ==
    /\ ~zipcode.done
    /\ zipcode' =
          IF Raises(response)
          THEN [done |-> TRUE,
                raised |-> IF response = "ConnectionError" THEN "ConnectionError"
                           ELSE "JSONDecodeError",
                value |-> Text(<<>>)]
          ELSE [done |-> TRUE, raised |-> None,
                value |-> get_zipcode_from_coordinates(response, distance)]
    /\ UNCHANGED <<distance, response, validatorVars, storeVars>>

SpecResolve == InitResolve /\ [][Click]_vars

--------------------------------------------------------------------------
(* Page runs of one browser session, one at a time                         *)

Init == ValidatorIdle /\ ResolverIdle /\ StoreIdle

Record(op, sess, msg, z, vals, idx, fresh) ==
    [op |-> op, s |-> sess, msg |-> msg, z |-> z, vals |-> vals, idx |-> idx,
     fresh |-> fresh, before |-> file, prev |-> Brief(last)]

\* A run of the input page with "Submit Data" pressed: lines 106-126, then
\* the load of line 134 and the analysis of lines 161-171.
Submit ==
    \E z \in ZipInputs, d \in Dates, ph \in PhInputs, tu \in TurbidityInputs,
       ox \in OxygenInputs, ni \in NitrateInputs :
        LET r == SubmitData(file, z, d, ph, tu, ox, ni)
        IN  /\ Len(r.file) <= MaxRows
            /\ file' = r.file
            /\ last' = Record("submit", "A", r.msg, z, <<d, ph, tu, ox, ni>>, 0, TRUE)
            /\ page' = ManualPage(read_csv(r.file, TRUE))
            /\ UNCHANGED <<recent_data, pc, validatorVars, resolverVars>>

\* A run of the input page with "Delete Entry idx" pressed (the button of a
\* page drawn earlier, so idx need not be a row any more): lines 133-145,
\* then the analysis over what is left in recent_data.
Delete ==
    \E idx \in 0..MaxRows :
        LET r == DeleteEntry(file, idx)
        IN  /\ file' = r.file
            /\ last' = Record("delete", "A", r.msg, <<>>, <<>>, idx, TRUE)
            /\ page' = ManualPage(r.frame)
            /\ UNCHANGED <<recent_data, pc, validatorVars, resolverVars>>

\* A run of a page that only shows the file.
View ==
    \E name \in {"Home", "Dashboard", "Manual"} :
        /\ page' = CASE name = "Home"      -> HomePage(file)
                     [] name = "Dashboard" -> DashboardPage(file)
                     [] OTHER              -> ManualPage(read_csv(file, TRUE))
        /\ last' = Record("view", "A", None, <<>>, <<>>, 0, TRUE)
        /\ UNCHANGED <<file, recent_data, pc, validatorVars, resolverVars>>

Next == Submit \/ Delete \/ View

Spec == Init /\ [][Next]_vars

--------------------------------------------------------------------------
(* The pages over any file: rows of AggRows, not only the input page's     *)

InitAgg ==
    /\ file \in SeqsUpTo(AggRows, MaxAggRows)
    /\ recent_data = [s \in Sessions |-> <<>>]
    /\ pc = [s \in Sessions |-> [at |-> "idle", idx |-> 0]]
    /\ last = NoRun
    /\ page = NoPage
    /\ ValidatorIdle /\ ResolverIdle

SpecAgg == InitAgg /\ [][View]_vars

--------------------------------------------------------------------------
(* Two browser sessions on the same file.  Each runs its script on its own *)
(* thread; nothing orders the read of line 134 in one session against the  *)
(* writes of lines 122 and 143 in the other.                               *)

\* Session s appends a row (line 122).
ConcSubmit(s) ==
    \E z \in ConcZipInputs, d \in Dates, ph \in PhInputs, ox \in OxygenInputs,
       ni \in NitrateInputs :
        LET r == SubmitData(file, z, d, ph, 10, ox, ni)
        IN  /\ pc[s].at = "idle"
            /\ Len(r.file) <= MaxConcRows
            /\ file' = r.file
            /\ last' = [Record("submit", s, r.msg, z, <<d, ph, 10, ox, ni>>, 0, TRUE)
                            EXCEPT !.prev = NoPrev]
            /\ UNCHANGED <<recent_data, pc, page, validatorVars, resolverVars>>

\* Session s, "Delete Entry idx" pressed, has read the file (line 134) and
\* found the button pressed among those it draws (line 141).
ConcDeleteLoad(s) ==
    \E idx \in 0..(MaxConcRows - 1) :
        /\ pc[s].at = "idle"
        /\ HasDeleteButton(read_csv(file, TRUE), idx)
        /\ recent_data' = [recent_data EXCEPT ![s] = read_csv(file, TRUE)]
        /\ pc' = [pc EXCEPT ![s] = [at |-> "drop", idx |-> idx]]
        /\ last' = [Record("load", s, None, <<>>, <<>>, idx, TRUE)
                        EXCEPT !.prev = NoPrev]
        /\ UNCHANGED <<file, page, validatorVars, resolverVars>>

\* Session s drops the row from its frame and writes the file (lines 142-143).
\* last.fresh tells whether the file still was what s had loaded.
ConcDeleteRewrite(s) ==
    /\ pc[s].at = "drop"
    /\ file' = DeleteRewrite(recent_data[s], pc[s].idx)
    /\ recent_data' = [recent_data EXCEPT ![s] = drop(recent_data[s], pc[s].idx)]
    /\ pc' = [pc EXCEPT ![s] = [at |-> "idle", idx |-> 0]]
    /\ last' = [Record("rewrite", s, MsgDeleted, <<>>, <<>>, pc[s].idx,
                       read_csv(file, TRUE) = recent_data[s])
                    EXCEPT !.prev = NoPrev]
    /\ UNCHANGED <<page, validatorVars, resolverVars>>

NextConc == \E s \in Sessions :
                ConcSubmit(s) \/ ConcDeleteLoad(s) \/ ConcDeleteRewrite(s)

SpecConc == Init /\ [][NextConc]_vars

--------------------------------------------------------------------------
(* Properties                                                              *)

FiveDigits(t) == Len(t) = 5 /\ \A i \in 1..5 : t[i] \in {Alphabet[j] : j \in 1..10}
RemoveAt(L, i) == SubSeq(L, 1, i) \o SubSeq(L, i + 2, Len(L))
Loaded(f) == read_csv(f, TRUE)
\* The reading a Submit with zip text z and inputs vals is about.
ReadingOf(z, vals) ==
    [Zipcode |-> StrZip(z), Date |-> vals[1], pH |-> Float(vals[2], 0),
     Turbidity |-> Float(vals[3], 0), DissolvedOxygen |-> Float(vals[4], 0),
     Nitrate |-> Float(vals[5], 0)]

\* C1: validate_data returns exactly one warning for each parameter outside
\* its inclusive range (pH 6.5-8.5, turbidity 0-5, dissolved oxygen 5-14,
\* nitrate 0-10), in the order pH, turbidity, dissolved oxygen, nitrate, and
\* nothing else: the list is empty iff all four are in range, and a value on
\* a bound gives no warning.
C1_Warnings ==
    validation_warnings.done =>
        LET W == validation_warnings.list
            msgs == <<W_pH, W_Turbidity, W_DO, W_Nitrate>>
            out == << args[1] < 65 \/ args[1] > 85, args[2] < 0 \/ args[2] > 50,
                      args[3] < 50 \/ args[3] > 140, args[4] < 0 \/ args[4] > 100 >>
            pos(i) == Cardinality({j \in 1..i : out[j]})
        IN  /\ Len(W) = pos(4)
            /\ \A i \in 1..4 : out[i] => W[pos(i)] = msgs[i]
            /\ (W = <<>>) <=> (\A i \in 1..4 : ~out[i])

\* C1 witness: pH exactly on its upper bound, turbidity and nitrate out of
\* range: two warnings, turbidity's first.
C1_Witness ==
    /\ validation_warnings.done
    /\ args[1] = 85 /\ args[2] = 51 /\ args[3] = 50 /\ args[4] = 101
    /\ validation_warnings.list = <<W_Turbidity, W_Nitrate>>

FailedCalls == {"ConnectionError", "status_500", "body_not_json", "no_address",
                "no_postcode", "postcode_null"}

\* C2: whenever the geocoding call fails (non-success status, network error,
\* malformed response) the resolver returns get_nearest_zipcode's result and
\* no failure propagates; the result is never None, whatever the call did.
C2_FallbackAlways ==
    zipcode.done =>
        /\ zipcode.raised = None
        /\ ~zipcode.value.none
        /\ response \in FailedCalls => zipcode.value = get_nearest_zipcode(distance)

\* C3: get_nearest_zipcode returns the zip code of an entry of the 7-entry
\* table at minimal distance, the first such entry in table order, and never
\* None.
C3_Nearest ==
    (zipcode.done /\ response \in {"status_500", "no_address", "no_postcode"}) =>
        /\ ~zipcode.value.none
        /\ Len(known_zipcode_coords) = 7
        /\ \E i \in TableIdx :
              /\ known_zipcode_coords[i].zipcode = zipcode.value.text
              /\ \A j \in TableIdx : distance[i] <= distance[j]
              /\ \A j \in 1..(i - 1) : distance[j] > distance[i]

\* C3 witness: the fallback ran with the third and the sixth entry tied at the
\* least distance, and the third was returned.
C3_Witness ==
    /\ zipcode.done /\ response = "status_500"
    /\ distance[3] = 1 /\ distance[6] = 1
    /\ \A j \in TableIdx \ {3, 6} : distance[j] > 1
    /\ zipcode.value = Text(<<"9", "5", "1", "1", "3">>)

AppendCase ==
    last.op = "submit" /\ last.msg = MsgSuccess /\ FiveDigits(last.z)
DeleteLastCase ==
    /\ last.op = "delete" /\ last.msg = MsgDeleted
    /\ last.prev.stored /\ FiveDigits(last.prev.z)
    /\ last.idx = Len(Loaded(last.before)) - 1

\* C4 (as amended): appending a reading r and loading gives the previous rows
\* in their order followed by r; deleting that last position and loading
\* gives a sequence one shorter that equals the sequence before the append.
C4_RoundTrip ==
    /\ AppendCase =>
          Loaded(file) = Append(Loaded(last.before), ReadingOf(last.z, last.vals))
    /\ DeleteLastCase =>
          /\ Len(Loaded(file)) = Len(Loaded(last.before)) - 1
          /\ Loaded(file) = Loaded(last.prev.before)

\* C4 (as claimed): the same, and after the delete the sequence no longer has
\* r at its end.
C4_RoundTripNoLongerAtEnd ==
    /\ C4_RoundTrip
    /\ DeleteLastCase =>
          \/ Loaded(file) = <<>>
          \/ Loaded(file)[Len(Loaded(file))] # ReadingOf(last.prev.z, last.prev.vals)

\* C4 witness: a reading was appended to a store holding rows and its
\* position was deleted in the next run.
C4_Witness == DeleteLastCase /\ Len(file) >= 2

StaleDeleteCase == last.op = "delete" /\ last.idx >= Len(Loaded(last.before))

C6_ZipValidated ==
    /\ (last.op = "submit" /\ ~FiveDigits(last.z)) =>
          last.msg = MsgZipError /\ file = last.before
    /\ \A i \in 1..Len(file) : FiveDigits(file[i].Zipcode)

\* The zip text a summary's key stands for: the text itself, or the number
\* the text spells.
Denotes(key, t) ==
    \/ key.k = "str" /\ key.s = t
    \/ key.k \in {"int", "float"} /\ IsIntText(t) /\ ToInt(t) = key.n

RECURSIVE CellSum(_, _, _)
CellSum(I, p, part) ==
    IF I = {} THEN 0
    ELSE LET i == CHOOSE x \in I : TRUE
         IN  file[i][p][part] + CellSum(I \ {i}, p, part)

\* C7: on every page that aggregates, the summary has exactly one row per
\* distinct zip code of the file, each of its four means is the mean of that
\* field over the rows of the zip code whose value is numeric, and a
\* non-numeric or missing value never makes the aggregation fail (no column
\* of means is missing when the page reads it).
C7_Summaries ==
    page.name # "none" =>
        LET present == {file[i].Zipcode : i \in 1..Len(file)}
            S == page.summary
        IN  /\ page.error # "KeyError"
            /\ Len(S) = Cardinality(present)
            /\ \A t \in present : \E j \in 1..Len(S) : Denotes(S[j].Zipcode, t)
            /\ \A j \in 1..Len(S) : \A p \in ParamSet :
                  LET I == {i \in 1..Len(file) :
                               /\ Denotes(S[j].Zipcode, file[i].Zipcode)
                               /\ file[i][p].k = "num"}
                      m == S[j].mean[p]
                  IN  /\ m.present
                      /\ m.n = Cardinality(I)
                      /\ m.sum = CellSum(I, p, "v")
                      /\ m.esum = CellSum(I, p, "e")

\* A mean inside [low, high], both ends included, by the validator's bounds.
WithinRange(m, low, high) ==
    /\ m.n > 0
    /\ (low * m.n < m.sum \/ (low * m.n = m.sum /\ m.esum >= 0))
    /\ (m.sum < high * m.n \/ (m.sum = high * m.n /\ m.esum <= 0))

AllWithinRange(row) ==
    /\ WithinRange(row.mean["pH"], 65, 85)
    /\ WithinRange(row.mean["Turbidity"], 0, 50)
    /\ WithinRange(row.mean["DissolvedOxygen"], 50, 140)
    /\ WithinRange(row.mean["Nitrate"], 0, 100)

\* C8: for every zip summary the Home page gives a verdict for, the verdict
\* is "safe" iff each of the four means is within its inclusive range, and a
\* summary with a parameter shown as Alert is never reported safe.
C8_Verdict ==
    page.name = "Home" =>
        \A j \in 1..Len(page.shown) :
            page.shown[j].overall # NotShown =>
                /\ (page.shown[j].overall = "safe") <=> AllWithinRange(page.summary[j])
                /\ (\E p \in ParamSet : page.shown[j].status[p] = "Alert")
                      => page.shown[j].overall # "safe"

\* C9: every page that loads the store reads a five-digit zip code back as
\* the identical text, never as a number, also after a Delete rewrote the
\* file.
C9_ZipReadBack ==
    page.name # "none" =>
        /\ Len(page.zips) = Len(file)
        /\ \A i \in 1..Len(file) :
              FiveDigits(file[i].Zipcode) => page.zips[i] = StrZip(file[i].Zipcode)

StepsKeepRows ==
    /\ (last.op = "submit" /\ last.msg = MsgSuccess) =>
          Loaded(file) = Append(Loaded(last.before), ReadingOf(last.z, last.vals))
    /\ last.op = "load" => Loaded(file) = Loaded(last.before)

\* C10 (as claimed): under every interleaving of the Submits and Deletes of
\* two sessions a stored reading stays, unchanged, until a Delete of its own
\* row: a Submit only appends, and a Delete's rewrite removes exactly the row
\* it targets from what the file holds.
C10_NoLostRow ==
    /\ StepsKeepRows
    /\ last.op = "rewrite" =>
          Loaded(file) = RemoveAt(Loaded(last.before), last.idx)

\* C10 (as amended): the same for every Delete whose rewrite finds the file
\* as the Delete loaded it; a rewrite over a file that another session wrote
\* in between is not covered (it puts back the older content).
C10_NoLostRowIfUnchanged ==
    /\ StepsKeepRows
    /\ (last.op = "rewrite" /\ last.fresh) =>
          Loaded(file) = RemoveAt(Loaded(last.before), last.idx)

\* C10 witness: a Delete rewrote the file it had loaded, other rows staying,
\* while the other session was between the load and the rewrite of its own
\* Delete.
C10_Witness ==
    /\ last.op = "rewrite" /\ last.fresh /\ Len(file) >= 1
    /\ \E s \in Sessions : s # last.s /\ pc[s].at = "drop"

\* The four inputs of a Submit, each within its inclusive safe range.
InputsInRange(vals) ==
    /\ 65 <= vals[2] /\ vals[2] <= 85
    /\ 0 <= vals[3] /\ vals[3] <= 50
    /\ 50 <= vals[4] /\ vals[4] <= 140
    /\ 0 <= vals[5] /\ vals[5] <= 100

CellInRange(c, low, high) == c.k = "num" /\ c.e = 0 /\ low <= c.v /\ c.v <= high

\* C11: from an empty store, after any Submits and Deletes of the input page
\* every stored row has its four values within their inclusive safe ranges:
\* a Submit appends a row only when no value is out of range, and a Submit
\* with a value out of range leaves the store as it was.
C11_StoredInRange ==
    /\ \A i \in 1..Len(file) :
          /\ CellInRange(file[i].pH, 65, 85)
          /\ CellInRange(file[i].Turbidity, 0, 50)
          /\ CellInRange(file[i].DissolvedOxygen, 50, 140)
          /\ CellInRange(file[i].Nitrate, 0, 100)
    /\ (last.op = "submit" /\ file # last.before) => InputsInRange(last.vals)
    /\ (last.op = "submit" /\ ~InputsInRange(last.vals)) => file = last.before

\* C11 witness: a Submit with turbidity 6.0 and a zip code given showed the
\* warning and left a store holding rows as it was.
C11_Witness ==
    /\ last.op = "submit" /\ last.msg = MsgUnusual /\ last.vals[3] = 60
    /\ Len(file) >= 1 /\ file = last.before

====
